---- MODULE Spec2Model ----
(***************************************************************************)
(* Model of duplicate-finder/duplicate_finder.py: main, find_duplicates    *)
(* and calculate_file_hash, run against a file system that other processes *)
(* may change while the scan is running; and of the monitoring thread of   *)
(* system-monitor/system_monitor.py with the button that starts and stops  *)
(* it.                                                                     *)
(***************************************************************************)
EXTENDS Integers, Sequences, FiniteSets, TLC

(***************************************************************************)
(* The directory tree handed to the program.                               *)
(***************************************************************************)

\* Number of changes other processes make to the tree during one run.
MaxEnvSteps == 1

\* Number of times main is run on the same tree.
MaxRuns == 2

\* Number of symbolic links in the tree.
MaxLinks == 1

\* Number of clicks on the button of the system monitor.
MaxClicks == 3

Root == "root"

\* Directories in the order scandir reports them.
DirOrder == <<"root", "root/dA", "root/dB">>

Dirs == {DirOrder[i] : i \in 1..Len(DirOrder)}

ParentOf(d) == IF d = Root THEN "" ELSE Root

\* File paths (os.path.join(root, filename)) in the order scandir reports them.
FileOrder == <<"root/a", "root/b", "root/dA/c", "root/dB/d">>

Files == {FileOrder[i] : i \in 1..Len(FileOrder)}

\* The position of an entry in a listing.
Rank(sq, x) == CHOOSE i \in 1..Len(sq) : sq[i] = x

DirOf(f) ==
    CASE f = "root/a" -> "root"
      [] f = "root/b" -> "root"
      [] f = "root/dA/c" -> "root/dA"
      [] f = "root/dB/d" -> "root/dB"

\* Byte contents a file may hold, by name.
Contents == {"A100", "A50", "X2"}

Rep(b, n) == [i \in 1..n |-> b]

Bytes(c) ==
    CASE c = "A100" -> Rep(1, 100)
      [] c = "A50" -> Rep(1, 50)
      [] c = "X2" -> <<4, 52>>
      [] c = "P5" -> <<3, 1, 4, 1, 5>>
      [] c = "S1" -> <<191>>
      [] c = "E0" -> <<>>
      [] OTHER -> <<>>

\* What truncation by another process leaves of a content.
Truncated(c) == IF c = "A100" THEN "A50" ELSE "A100"

(***************************************************************************)
(* hashlib.md5, scaled down: a running digest folded over the bytes.       *)
(***************************************************************************)

DigestModulus == 251

md5_new == 7

\* The digest state after one more byte.
md5_byte(h, b) == (h * 31 + b + 1) % DigestModulus

\* The digest state after the bytes data[lo..hi] are folded into h, first to
\* last. The range is split in halves; the state after the left half is bound
\* as a value before the right half starts, which keeps the evaluation shallow.
RECURSIVE md5_fold(_, _, _, _)
md5_fold(h, data, lo, hi) ==
    IF lo > hi THEN h
    ELSE IF lo = hi THEN md5_byte(h, data[lo])
    ELSE LET mid == (lo + hi) \div 2
         IN  CHOOSE r \in {md5_fold(left, data, mid + 1, hi) :
                              left \in {md5_fold(h, data, lo, mid)}} : TRUE

\* md5.update(data)
md5_update(h, data) ==
    CHOOSE r \in {md5_fold(h0, d, 1, Len(d)) : h0 \in {h}, d \in {data}} : TRUE

md5_hexdigest(h) == h

block_size == 65536

Min(a, b) == IF a < b THEN a ELSE b

\* f.read(block_size): the next block and what is left of the stream.
ReadBlock(stream, n) == SubSeq(stream, 1, Min(n, Len(stream)))

RestAfter(stream, n) == SubSeq(stream, Min(n, Len(stream)) + 1, Len(stream))

RECURSIVE read_loop(_, _, _)
read_loop(h, stream, n) ==
    LET data == ReadBlock(stream, n)
    IN  IF data = <<>> THEN h
        ELSE read_loop(md5_update(h, data), RestAfter(stream, n), n)

calculate_file_hash(bytes, n) == md5_hexdigest(read_loop(md5_new, bytes, n))

VARIABLES
    root_kind,        \* "dir", "missing" or "file": what the root path names
    dir_mode,         \* directory -> "ok" or "denied"
    fstat,            \* file -> "ok", "unreadable" or "gone"
    content,          \* file -> name of its byte content
    env_steps,        \* changes made by other processes so far
    pc,               \* position of the program
    todo,             \* directories os.walk still has to list
    files,            \* files of the current directory not yet processed
    file_hash,        \* local of find_duplicates
    hash_map,         \* dict in insertion order: sequence of [hash, files]
    total_size,
    duplicate_size,
    duplicate_files,  \* the filtered dict, same representation as hash_map
    gi,               \* position of the statistics loop in duplicate_files
    stderr,           \* the lines printed to sys.stderr, in order
    result,           \* what find_duplicates returned
    stdout,           \* what main printed
    sig,              \* file -> signature calculate_file_hash returned for it
    read_len,         \* file -> number of bytes calculate_file_hash read from it
    recorded,         \* file -> size line 41 read for it
    rep_size,         \* group position -> size line 51 read for its first file
    walked,           \* files os.walk has yielded so far
    skipped_dirs,     \* directories whose listing failed
    touched,          \* files and directories other processes have changed
    file_order,       \* the file paths in the order scandir reports them
    dir_order,        \* the directories in the order scandir reports them
    fkind,            \* file -> "regular" or "symlink"
    runs,             \* number of the present run of main
    first,            \* what the first run returned and the signatures it computed
    renamed,          \* <<old, new, n>> once a file was renamed after run n
    handles,          \* the paths calculate_file_hash holds an open file object for
    stream,           \* what is left to read of the open file
    md5,              \* the running digest of calculate_file_hash
    reads,            \* f.read calls of the present call that returned data
    bsize,            \* the block_size calculate_file_hash is called with
    monitor,          \* MonitoringApp.monitor: the SystemMonitor object in use
    running,          \* SystemMonitor object -> its attribute running
    log_to_file,      \* SystemMonitor object -> its attribute log_to_file
    log_file,         \* thread -> the state of the log file it opened
    monitoring_thread, \* MonitoringApp.monitoring_thread: None or a thread
    thread_pc,        \* thread -> where it is in SystemMonitor.monitor
    toggle_pc,        \* where the main thread is in toggle_monitoring
    start_button,     \* the text of the button
    clicks,           \* clicks on the button so far
    stop_asked        \* threads a click has called stop_monitoring for

vars == <<root_kind, dir_mode, fstat, content, env_steps, pc, todo, files,
          file_hash, hash_map, total_size, duplicate_size, duplicate_files,
          gi, stderr, result, stdout, sig, read_len, recorded, rep_size,
          walked, skipped_dirs, touched, file_order, dir_order, fkind,
          runs, first, renamed, handles, stream, md5, reads, bsize,
          monitor, running, log_to_file, log_file, monitoring_thread,
          thread_pc, toggle_pc, start_button, clicks, stop_asked>>

\* What the tree is and how it is listed.
treevars == <<file_order, dir_order, fkind>>

fsvars == <<root_kind, dir_mode, fstat, content, env_steps, touched, treevars>>

\* The runs of main.
callvars == <<runs, first, renamed>>

\* The state of one call of calculate_file_hash.
readvars == <<handles, stream, md5, reads, bsize>>

\* The system monitor: the application, its monitor objects and threads.
guivars == <<monitor, running, log_to_file, log_file, monitoring_thread,
             thread_pc, toggle_pc, start_button, clicks, stop_asked>>

progvars == <<pc, todo, files, file_hash, hash_map, total_size,
              duplicate_size, duplicate_files, gi, stderr, result, stdout,
              sig, read_len, recorded, rep_size, walked, skipped_dirs,
              callvars, readvars>>

\* Python's None, as a value no size or digest takes.
None == 0 - 1

NoResult == [returned |-> FALSE]

(***************************************************************************)
(* The file system calls the program makes.                                *)
(***************************************************************************)

\* os.path.isdir(path)
isdir == root_kind = "dir"

\* os.scandir(d) succeeds
Listable(d) == root_kind = "dir" /\ dir_mode[Root] = "ok" /\ dir_mode[d] = "ok"

\* open(f, "rb") and the reads succeed
Readable(f) == Listable(DirOf(f)) /\ fstat[f] = "ok"

\* open(f, "rb") succeeds; a read of a faulty file may raise
Openable(f) == Listable(DirOf(f)) /\ fstat[f] \in {"ok", "faulty"}

\* os.path.getsize(f) succeeds
Statable(f) == Listable(DirOf(f)) /\ fstat[f] # "gone"

getsize(f) == Len(Bytes(content[f]))

\* The non-directory entries scandir(d) reports.
ListFiles(d) ==
    LET InDir(f) == DirOf(f) = d /\ fstat[f] # "gone"
    IN  SelectSeq(file_order, InDir)

\* The directory entries scandir(d) reports.
ListDirs(d) ==
    LET Under(x) == ParentOf(x) = d
    IN  SelectSeq(dir_order, Under)

(***************************************************************************)
(* Initial states: a root that is missing, a plain file, or a directory    *)
(* holding any choice of the files, each with any of the contents.         *)
(***************************************************************************)

\* Thread objects, and the SystemMonitor object each one runs; object 0 is
\* the SystemMonitor made by MonitoringApp.__init__.
Threads == 1..MaxClicks

\* MonitoringApp.__init__ and SystemMonitor.__init__
AppStart ==
    /\ monitor = 0
    /\ running = [m \in {0} \cup Threads |-> FALSE]
    /\ log_to_file = [m \in {0} \cup Threads |-> FALSE]
    /\ log_file = [t \in Threads |-> "none"]
    /\ monitoring_thread = None
    /\ thread_pc = [t \in Threads |-> "none"]
    /\ toggle_pc = "idle"
    /\ start_button = "Start Monitoring"
    /\ clicks = 0
    /\ stop_asked = {}

\* The program before main has run a line.
Start ==
    /\ pc = "main"
    /\ todo = <<>>
    /\ files = <<>>
    /\ file_hash = None
    /\ hash_map = <<>>
    /\ total_size = 0
    /\ duplicate_size = 0
    /\ duplicate_files = <<>>
    /\ gi = 1
    /\ stderr = <<>>
    /\ result = NoResult
    /\ stdout = <<>>
    /\ sig = [f \in Files |-> None]
    /\ read_len = [f \in Files |-> None]
    /\ recorded = [f \in Files |-> None]
    /\ rep_size = <<>>
    /\ walked = {}
    /\ skipped_dirs = {}
    /\ runs = 1
    /\ first = NoResult
    /\ renamed = <<>>
    /\ handles = {}
    /\ stream = <<>>
    /\ md5 = None
    /\ reads = 0
    /\ AppStart

Init ==
    /\ root_kind \in {"dir", "missing", "file"}
    /\ dir_mode = [d \in Dirs |-> "ok"]
    /\ fstat \in [Files -> {"ok", "gone"}]
    /\ content \in [Files -> Contents \cup {"none"}]
    /\ \A f \in Files : (fstat[f] = "gone") <=> (content[f] = "none")
    /\ root_kind # "dir" => \A f \in Files : fstat[f] = "gone"
    /\ env_steps = 0
    /\ touched = {}
    /\ file_order = FileOrder
    /\ dir_order = DirOrder
    /\ fkind = [f \in Files |-> "regular"]
    /\ bsize = block_size
    /\ Start

(***************************************************************************)
(* The dict of find_duplicates: Python dicts keep insertion order, so a    *)
(* dict is a sequence of entries [hash, files].                            *)
(***************************************************************************)

HasKey(m, h) == \E i \in 1..Len(m) : m[i].hash = h

\* Variant: every path gets a list of its own, whatever its hash.
dict_append_Fresh(m, h, f) == Append(m, [hash |-> h, files |-> <<f>>])

\* Variant: a path joins the list of the hash inserted last and starts a new
\* list otherwise, as a grouping of adjacent equal hashes does.
dict_append_Adjacent(m, h, f) ==
    IF m # <<>> /\ m[Len(m)].hash = h
    THEN [m EXCEPT ![Len(m)].files = Append(@, f)]
    ELSE Append(m, [hash |-> h, files |-> <<f>>])

\* hash_map[h].append(f) on a defaultdict(list)
dict_append(m, h, f) ==
    IF HasKey(m, h)
    THEN [i \in 1..Len(m) |->
            IF m[i].hash = h THEN [m[i] EXCEPT !.files = Append(@, f)] ELSE m[i]]
    ELSE Append(m, [hash |-> h, files |-> <<f>>])

\* Variant: the filter keeps every non-empty list.
FilterDuplicates_NonEmpty(m) ==
    LET Some(e) == Len(e.files) > 0
    IN  SelectSeq(m, Some)

\* {h: files for h, files in hash_map.items() if len(files) > 1}
FilterDuplicates(m) ==
    LET More(e) == Len(e.files) > 1
    IN  SelectSeq(m, More)

\* Variant: every member counts as wasted, the first one included.
Wasted_All(size, members) == size * Len(members)

\* os.path.getsize(files[0]) * (len(files) - 1)
Wasted(size, members) == size * (Len(members) - 1)

\* Variant: "=" written for "+=".
Counted_Assign(total, file_size) == file_size

\* total_size += file_size
Counted(total, file_size) == total + file_size

ErrorLine(f) == [msg |-> "Error processing", path |-> f]

\* The loop "for filename in files" moves on to the next file, or the walk
\* to the next directory.
AfterFile == IF Tail(files) = <<>> THEN "walk" ELSE "hash"

(***************************************************************************)
(* main, lines 56-68                                                       *)
(***************************************************************************)

MainInvalid ==
    /\ pc = "main"
    /\ ~isdir
    /\ stderr' = Append(stderr, [msg |-> "not a valid directory", path |-> Root])
    /\ pc' = "exit1"
    /\ UNCHANGED <<todo, files, file_hash, hash_map, total_size,
                   duplicate_size, duplicate_files, gi, result, stdout, sig,
                   read_len, recorded, rep_size, walked, skipped_dirs>>
    /\ UNCHANGED <<fsvars, callvars, readvars, guivars>>

\* Variant: hash_map lives at module level and is not emptied by a call.
MainScan_KeepsIndex ==
    /\ pc = "main"
    /\ isdir
    /\ stdout' = Append(stdout, "Scanning directory")
    /\ hash_map' = hash_map
    /\ total_size' = 0
    /\ duplicate_size' = 0
    /\ todo' = <<Root>>
    /\ pc' = "walk"
    /\ UNCHANGED <<files, file_hash, duplicate_files, gi, stderr, result,
                   sig, read_len, recorded, rep_size, walked, skipped_dirs>>
    /\ UNCHANGED <<fsvars, callvars, readvars, guivars>>

MainScan ==
    /\ pc = "main"
    /\ isdir
    /\ stdout' = Append(stdout, "Scanning directory")
    /\ hash_map' = <<>>
    /\ total_size' = 0
    /\ duplicate_size' = 0
    /\ todo' = <<Root>>
    /\ pc' = "walk"
    /\ UNCHANGED <<files, file_hash, duplicate_files, gi, stderr, result,
                   sig, read_len, recorded, rep_size, walked, skipped_dirs>>
    /\ UNCHANGED <<fsvars, callvars, readvars, guivars>>

(***************************************************************************)
(* find_duplicates, lines 36-45: the walk                                  *)
(***************************************************************************)

\* os.walk lists the next directory and yields it.
WalkList ==
    /\ pc = "walk"
    /\ todo # <<>>
    /\ Listable(Head(todo))
    /\ files' = ListFiles(Head(todo))
    /\ todo' = ListDirs(Head(todo)) \o Tail(todo)
    /\ walked' = walked \cup {files'[i] : i \in 1..Len(files')}
    /\ pc' = IF files' = <<>> THEN "walk" ELSE "hash"
    /\ UNCHANGED <<file_hash, hash_map, total_size, duplicate_size,
                   duplicate_files, gi, stderr, result, stdout, sig,
                   read_len, recorded, rep_size, skipped_dirs>>
    /\ UNCHANGED <<fsvars, callvars, readvars, guivars>>

\* scandir fails; os.walk was given no onerror, so the error is ignored.
WalkSkip ==
    /\ pc = "walk"
    /\ todo # <<>>
    /\ ~Listable(Head(todo))
    /\ todo' = Tail(todo)
    /\ skipped_dirs' = skipped_dirs \cup {Head(todo)}
    /\ UNCHANGED <<pc, files, file_hash, hash_map, total_size,
                   duplicate_size, duplicate_files, gi, stderr, result,
                   stdout, sig, read_len, recorded, rep_size, walked>>
    /\ UNCHANGED <<fsvars, callvars, readvars, guivars>>

\* Variant: the digest is seeded with the file's path.
HashOk_SeededByPath ==
    /\ pc = "hash"
    /\ Readable(Head(files))
    /\ file_hash' = md5_hexdigest(
          read_loop(md5_byte(md5_new, Rank(FileOrder, Head(files))),
                    Bytes(content[Head(files)]), block_size))
    /\ sig' = [sig EXCEPT ![Head(files)] = file_hash']
    /\ read_len' = [read_len EXCEPT ![Head(files)] = Len(Bytes(content[Head(files)]))]
    /\ pc' = "size"
    /\ UNCHANGED <<todo, files, hash_map, total_size, duplicate_size,
                   duplicate_files, gi, stderr, result, stdout, recorded,
                   rep_size, walked, skipped_dirs>>
    /\ UNCHANGED <<fsvars, callvars, readvars, guivars>>

\* line 40 returns a hash
HashOk ==
    /\ pc = "hash"
    /\ Readable(Head(files))
    /\ file_hash' = calculate_file_hash(Bytes(content[Head(files)]), block_size)
    /\ sig' = [sig EXCEPT ![Head(files)] = file_hash']
    /\ read_len' = [read_len EXCEPT ![Head(files)] = Len(Bytes(content[Head(files)]))]
    /\ pc' = "size"
    /\ UNCHANGED <<todo, files, hash_map, total_size, duplicate_size,
                   duplicate_files, gi, stderr, result, stdout, recorded,
                   rep_size, walked, skipped_dirs>>
    /\ UNCHANGED <<fsvars, callvars, readvars, guivars>>

\* Variant: the except clause sits outside the loop over the files, so an
\* error ends the directory.
HashFail_EndsDirectory ==
    /\ pc = "hash"
    /\ ~Readable(Head(files))
    /\ stderr' = Append(stderr, ErrorLine(Head(files)))
    /\ files' = <<>>
    /\ pc' = "walk"
    /\ UNCHANGED <<todo, file_hash, hash_map, total_size, duplicate_size,
                   duplicate_files, gi, result, stdout, sig, read_len,
                   recorded, rep_size, walked, skipped_dirs>>
    /\ UNCHANGED <<fsvars, callvars, readvars, guivars>>

\* Variant: "except: pass".
HashFail_Silent ==
    /\ pc = "hash"
    /\ ~Readable(Head(files))
    /\ files' = Tail(files)
    /\ pc' = AfterFile
    /\ UNCHANGED <<todo, file_hash, hash_map, total_size, duplicate_size,
                   duplicate_files, gi, stderr, result, stdout, sig, read_len,
                   recorded, rep_size, walked, skipped_dirs>>
    /\ UNCHANGED <<fsvars, callvars, readvars, guivars>>

\* line 40 raises, line 45 prints
HashFail ==
    /\ pc = "hash"
    /\ ~Readable(Head(files))
    /\ stderr' = Append(stderr, ErrorLine(Head(files)))
    /\ files' = Tail(files)
    /\ pc' = AfterFile
    /\ UNCHANGED <<todo, file_hash, hash_map, total_size, duplicate_size,
                   duplicate_files, gi, result, stdout, sig, read_len,
                   recorded, rep_size, walked, skipped_dirs>>
    /\ UNCHANGED <<fsvars, callvars, readvars, guivars>>

\* Variant: the path is appended before the size lookup and again after it.
SizeOk_AppendsTwice ==
    /\ pc = "size"
    /\ Statable(Head(files))
    /\ total_size' = Counted(total_size, getsize(Head(files)))
    /\ hash_map' = dict_append(dict_append(hash_map, file_hash, Head(files)),
                                file_hash, Head(files))
    /\ recorded' = [recorded EXCEPT ![Head(files)] = getsize(Head(files))]
    /\ files' = Tail(files)
    /\ pc' = AfterFile
    /\ UNCHANGED <<todo, file_hash, duplicate_size, duplicate_files, gi,
                   stderr, result, stdout, sig, read_len, rep_size, walked,
                   skipped_dirs>>
    /\ UNCHANGED <<fsvars, callvars, readvars, guivars>>

\* lines 41-43
SizeOk ==
    /\ pc = "size"
    /\ Statable(Head(files))
    /\ total_size' = Counted(total_size, getsize(Head(files)))
    /\ hash_map' = dict_append(hash_map, file_hash, Head(files))
    /\ recorded' = [recorded EXCEPT ![Head(files)] = getsize(Head(files))]
    /\ files' = Tail(files)
    /\ pc' = AfterFile
    /\ UNCHANGED <<todo, file_hash, duplicate_size, duplicate_files, gi,
                   stderr, result, stdout, sig, read_len, rep_size, walked,
                   skipped_dirs>>
    /\ UNCHANGED <<fsvars, callvars, readvars, guivars>>

\* Variant: the path is appended before its size is looked up, so a failing
\* lookup leaves it in the dict.
SizeFail_Indexed ==
    /\ pc = "size"
    /\ ~Statable(Head(files))
    /\ hash_map' = dict_append(hash_map, file_hash, Head(files))
    /\ stderr' = Append(stderr, ErrorLine(Head(files)))
    /\ files' = Tail(files)
    /\ pc' = AfterFile
    /\ UNCHANGED <<todo, file_hash, total_size, duplicate_size,
                   duplicate_files, gi, result, stdout, sig, read_len,
                   recorded, rep_size, walked, skipped_dirs>>
    /\ UNCHANGED <<fsvars, callvars, readvars, guivars>>

\* line 41 raises, line 45 prints
SizeFail ==
    /\ pc = "size"
    /\ ~Statable(Head(files))
    /\ stderr' = Append(stderr, ErrorLine(Head(files)))
    /\ files' = Tail(files)
    /\ pc' = AfterFile
    /\ UNCHANGED <<todo, file_hash, hash_map, total_size, duplicate_size,
                   duplicate_files, gi, result, stdout, sig, read_len,
                   recorded, rep_size, walked, skipped_dirs>>
    /\ UNCHANGED <<fsvars, callvars, readvars, guivars>>

(***************************************************************************)
(* find_duplicates, lines 47-53: filter, statistics, return                *)
(***************************************************************************)

\* os.walk is exhausted; line 48
WalkDone ==
    /\ pc = "walk"
    /\ todo = <<>>
    /\ duplicate_files' = FilterDuplicates(hash_map)
    /\ gi' = 1
    /\ pc' = IF duplicate_files' = <<>> THEN "return" ELSE "stats"
    /\ UNCHANGED <<todo, files, file_hash, hash_map, total_size,
                   duplicate_size, stderr, result, stdout, sig, read_len,
                   recorded, rep_size, walked, skipped_dirs>>
    /\ UNCHANGED <<fsvars, callvars, readvars, guivars>>

\* lines 49-51, one group
StatsStep ==
    /\ pc = "stats"
    /\ LET members == duplicate_files[gi].files
       IN  /\ Statable(members[1])
           /\ duplicate_size' = duplicate_size + Wasted(getsize(members[1]), members)
           /\ rep_size' = Append(rep_size, getsize(members[1]))
    /\ gi' = gi + 1
    /\ pc' = IF gi' > Len(duplicate_files) THEN "return" ELSE "stats"
    /\ UNCHANGED <<todo, files, file_hash, hash_map, total_size,
                   duplicate_files, stderr, result, stdout, sig, read_len,
                   recorded, walked, skipped_dirs>>
    /\ UNCHANGED <<fsvars, callvars, readvars, guivars>>

\* line 51 raises outside any try: the OSError leaves find_duplicates and main
StatsCrash ==
    /\ pc = "stats"
    /\ ~Statable(duplicate_files[gi].files[1])
    /\ pc' = "crashed"
    /\ UNCHANGED <<todo, files, file_hash, hash_map, total_size,
                   duplicate_size, duplicate_files, gi, stderr, result,
                   stdout, sig, read_len, recorded, rep_size, walked,
                   skipped_dirs>>
    /\ UNCHANGED <<fsvars, callvars, readvars, guivars>>

\* line 53
Return ==
    /\ pc = "return"
    /\ result' = [returned |-> TRUE,
                  duplicate_files |-> duplicate_files,
                  total_size |-> total_size,
                  duplicate_size |-> duplicate_size]
    /\ pc' = "report"
    /\ UNCHANGED <<todo, files, file_hash, hash_map, total_size,
                   duplicate_size, duplicate_files, gi, stderr, stdout, sig,
                   read_len, recorded, rep_size, walked, skipped_dirs>>
    /\ UNCHANGED <<fsvars, callvars, readvars, guivars>>

(***************************************************************************)
(* main, lines 70-88                                                       *)
(***************************************************************************)

RECURSIVE SumLen(_)
SumLen(m) == IF m = <<>> THEN 0 ELSE Len(Head(m).files) + SumLen(Tail(m))

\* Variant: every member of a group is counted as a duplicate.
DuplicateCount_Members(m) == SumLen(m)

\* line 76: sum(len(files) for files in duplicates.values()) - len(duplicates)
DuplicateCount(m) == SumLen(m) - Len(m)

\* The first group whose first path line 85 cannot stat.
FirstLost(m) == CHOOSE i \in 1..Len(m) :
    /\ ~Statable(m[i].files[1])
    /\ \A j \in 1..(i - 1) : Statable(m[j].files[1])

\* Variant: an empty result is treated as a failure, sys.exit(1).
ReportNone_Exit ==
    /\ pc = "report"
    /\ result.duplicate_files = <<>>
    /\ stdout' = Append(stdout, "No duplicate files found.")
    /\ pc' = "exit1"
    /\ UNCHANGED <<todo, files, file_hash, hash_map, total_size,
                   duplicate_size, duplicate_files, gi, stderr, result, sig,
                   read_len, recorded, rep_size, walked, skipped_dirs>>
    /\ UNCHANGED <<fsvars, callvars, readvars, guivars>>

\* lines 70-72
ReportNone ==
    /\ pc = "report"
    /\ result.duplicate_files = <<>>
    /\ stdout' = Append(stdout, "No duplicate files found.")
    /\ pc' = "done"
    /\ UNCHANGED <<todo, files, file_hash, hash_map, total_size,
                   duplicate_size, duplicate_files, gi, stderr, result, sig,
                   read_len, recorded, rep_size, walked, skipped_dirs>>
    /\ UNCHANGED <<fsvars, callvars, readvars, guivars>>

\* lines 74-88: the summary, then one "Duplicate set" block per group
ReportOk ==
    /\ pc = "report"
    /\ result.duplicate_files # <<>>
    /\ \A i \in 1..Len(result.duplicate_files) :
          Statable(result.duplicate_files[i].files[1])
    /\ stdout' = Append(stdout,
          [found |-> DuplicateCount(result.duplicate_files),
           total |-> result.total_size,
           duplicates |-> result.duplicate_size,
           sets |-> Len(result.duplicate_files)])
    /\ pc' = "done"
    /\ UNCHANGED <<todo, files, file_hash, hash_map, total_size,
                   duplicate_size, duplicate_files, gi, stderr, result, sig,
                   read_len, recorded, rep_size, walked, skipped_dirs>>
    /\ UNCHANGED <<fsvars, callvars, readvars, guivars>>

\* lines 74-85: the summary and the blocks before the one where line 85 raises
ReportCrash ==
    /\ pc = "report"
    /\ result.duplicate_files # <<>>
    /\ \E i \in 1..Len(result.duplicate_files) :
          ~Statable(result.duplicate_files[i].files[1])
    /\ stdout' = Append(stdout,
          [found |-> DuplicateCount(result.duplicate_files),
           total |-> result.total_size,
           duplicates |-> result.duplicate_size,
           sets |-> FirstLost(result.duplicate_files) - 1])
    /\ pc' = "crashed"
    /\ UNCHANGED <<todo, files, file_hash, hash_map, total_size,
                   duplicate_size, duplicate_files, gi, stderr, result, sig,
                   read_len, recorded, rep_size, walked, skipped_dirs>>
    /\ UNCHANGED <<fsvars, callvars, readvars, guivars>>

(***************************************************************************)
(* Other processes change the tree while the scan runs.                    *)
(***************************************************************************)

Running == pc \in {"walk", "hash", "size", "stats", "return", "report"}

EnvTurn == Running /\ env_steps < MaxEnvSteps /\ env_steps' = env_steps + 1

\* chmod 000 on a file
Revoke(f) ==
    /\ EnvTurn
    /\ fstat[f] = "ok"
    /\ fstat' = [fstat EXCEPT ![f] = "unreadable"]
    /\ UNCHANGED <<root_kind, dir_mode, content>>
    /\ touched' = touched \cup {f}
    /\ UNCHANGED <<treevars, progvars, guivars>>

\* unlink
Delete(f) ==
    /\ EnvTurn
    /\ fstat[f] # "gone"
    /\ fstat' = [fstat EXCEPT ![f] = "gone"]
    /\ content' = [content EXCEPT ![f] = "none"]
    /\ UNCHANGED <<root_kind, dir_mode>>
    /\ touched' = touched \cup {f}
    /\ UNCHANGED <<treevars, progvars, guivars>>

\* another process rewrites the file
Rewrite(f) ==
    /\ EnvTurn
    /\ fstat[f] # "gone"
    /\ content' = [content EXCEPT ![f] = Truncated(content[f])]
    /\ UNCHANGED <<root_kind, dir_mode, fstat>>
    /\ touched' = touched \cup {f}
    /\ UNCHANGED <<treevars, progvars, guivars>>

\* chmod 000 on a directory
Deny(d) ==
    /\ EnvTurn
    /\ dir_mode[d] = "ok"
    /\ dir_mode' = [dir_mode EXCEPT ![d] = "denied"]
    /\ UNCHANGED <<root_kind, fstat, content>>
    /\ touched' = touched \cup {d}
    /\ UNCHANGED <<treevars, progvars, guivars>>

ProgNext ==
    \/ MainInvalid
    \/ MainScan
    \/ WalkList
    \/ WalkSkip
    \/ HashOk
    \/ HashFail
    \/ SizeOk
    \/ SizeFail
    \/ WalkDone
    \/ StatsStep
    \/ StatsCrash
    \/ Return
    \/ ReportNone
    \/ ReportOk
    \/ ReportCrash

EnvNext ==
    \/ \E f \in Files : Revoke(f)
    \/ \E f \in Files : Delete(f)
    \/ \E f \in Files : Rewrite(f)
    \/ \E d \in Dirs : Deny(d)

Next == ProgNext \/ EnvNext

Spec == Init /\ [][Next]_vars

(***************************************************************************)
(* The program alone on a tree: scandir may report the entries of a        *)
(* directory in any order, main may be run again, and a file may be        *)
(* renamed between two runs.                                               *)
(***************************************************************************)

RECURSIVE Perms(_)
Perms(S) ==
    IF S = {} THEN {<<>>}
    ELSE UNION {{<<x>> \o p : p \in Perms(S \ {x})} : x \in S}

\* The orders of the file paths that differ in the order inside a directory.
FileOrders ==
    {o \in Perms(Files) :
        \A i, j \in 1..Len(o) :
            (i < j /\ DirOf(o[i]) # DirOf(o[j])) =>
                Rank(FileOrder, o[i]) < Rank(FileOrder, o[j])}

\* The orders of the directories: the root, then its subdirectories.
DirOrders == {<<Root>> \o p : p \in Perms(Dirs \ {Root})}

\* Contents of a few bytes; S1 and X2 have the same digest and other sizes,
\* E0 is the empty file.
ContentsQuiet == {"S1", "X2", "P5", "E0"}

InitQuiet ==
    /\ root_kind = "dir"
    /\ dir_mode = [d \in Dirs |-> "ok"]
    /\ fstat \in [Files -> {"ok", "unreadable", "gone"}]
    /\ content \in [Files -> ContentsQuiet \cup {"none"}]
    /\ \A f \in Files : (fstat[f] = "gone") <=> (content[f] = "none")
    /\ \A f \in Files : fstat[f] = "unreadable" => content[f] = "X2"
    /\ env_steps = 0
    /\ touched = {}
    /\ file_order \in FileOrders
    /\ dir_order \in DirOrders
    /\ fkind = [f \in Files |-> "regular"]
    /\ bsize = block_size
    /\ Start

\* What the program does on a tree that does not change while it runs.
ScanNext ==
    \/ MainScan
    \/ WalkList
    \/ HashOk
    \/ HashFail
    \/ SizeOk
    \/ WalkDone
    \/ StatsStep
    \/ Return
    \/ ReportNone
    \/ ReportOk

\* main is called again in the same interpreter: the first result is kept
\* for comparison, the output and the observations start afresh, and the
\* variables of the program are as the last call left them.
RunAgain ==
    /\ pc = "done"
    /\ runs < MaxRuns
    /\ runs' = runs + 1
    /\ first' = IF runs = 1
                THEN [returned |-> TRUE, result |-> result, sig |-> sig]
                ELSE first
    /\ pc' = "main"
    /\ result' = NoResult
    /\ stdout' = <<>>
    /\ stderr' = <<>>
    /\ sig' = [f \in Files |-> None]
    /\ read_len' = [f \in Files |-> None]
    /\ recorded' = [f \in Files |-> None]
    /\ rep_size' = <<>>
    /\ walked' = {}
    /\ skipped_dirs' = {}
    /\ UNCHANGED <<todo, files, file_hash, hash_map, total_size,
                   duplicate_size, duplicate_files, gi, renamed>>
    /\ UNCHANGED <<fsvars, readvars, guivars>>

\* os.rename(f, g) between two runs; g did not exist.
Rename(f, g) ==
    /\ pc = "done"
    /\ runs < MaxRuns
    /\ renamed = <<>>
    /\ fstat[f] # "gone"
    /\ fstat[g] = "gone"
    /\ fstat' = [fstat EXCEPT ![g] = fstat[f], ![f] = "gone"]
    /\ content' = [content EXCEPT ![g] = content[f], ![f] = "none"]
    /\ fkind' = [fkind EXCEPT ![g] = fkind[f], ![f] = "regular"]
    /\ renamed' = <<f, g, runs>>
    /\ UNCHANGED <<root_kind, dir_mode, env_steps, touched, file_order, dir_order>>
    /\ UNCHANGED <<pc, todo, files, file_hash, hash_map, total_size,
                   duplicate_size, duplicate_files, gi, stderr, result, stdout,
                   sig, read_len, recorded, rep_size, walked, skipped_dirs,
                   runs, first, readvars, guivars>>

NextQuiet ==
    \/ ScanNext
    \/ RunAgain
    \/ \E f, g \in Files : Rename(f, g)

SpecQuiet == InitQuiet /\ [][NextQuiet]_vars

(***************************************************************************)
(* A tree with symbolic links. os.walk reports a link to a file, and a     *)
(* dangling link, among the files of its directory; open and getsize       *)
(* follow the link.                                                        *)
(***************************************************************************)

Links == {f \in Files : fkind[f] = "symlink"}

InitLinks ==
    /\ root_kind = "dir"
    /\ dir_mode = [d \in Dirs |-> "ok"]
    /\ fkind \in [Files -> {"regular", "symlink"}]
    /\ Cardinality(Links) <= MaxLinks
    /\ fstat \in [Files -> {"ok", "unreadable", "gone"}]
    /\ content \in [Files -> Contents \cup {"none"}]
    \* an entry that is there and can be opened has bytes: its own, or its target's
    /\ \A f \in Files : (fstat[f] = "ok") <=> (content[f] # "none")
    \* the entry that cannot be opened is the link whose target is missing
    /\ \A f \in Files : (fstat[f] = "unreadable") => fkind[f] = "symlink"
    /\ \A f \in Files : (fstat[f] = "gone") => fkind[f] = "regular"
    /\ env_steps = 0
    /\ touched = {}
    /\ file_order = FileOrder
    /\ dir_order = DirOrder
    /\ bsize = block_size
    /\ Start

SpecLinks == InitLinks /\ [][ScanNext]_vars

(***************************************************************************)
(* calculate_file_hash step by step, lines 19-26, in the scan of a tree    *)
(* that does not change, with the block sizes of BlockSizes.               *)
(***************************************************************************)

BlockSizes == {2, 3, block_size}

\* Contents of a few bytes: several blocks each, the last one short or full.
ContentsBlocks == {"P5", "X2"}

InitBlocks ==
    /\ root_kind = "dir"
    /\ dir_mode = [d \in Dirs |-> "ok"]
    /\ fstat \in [Files -> {"ok", "unreadable", "faulty", "gone"}]
    /\ content \in [Files -> ContentsBlocks \cup {"none"}]
    /\ \A f \in Files : (fstat[f] = "gone") <=> (content[f] = "none")
    /\ \A f \in Files : fstat[f] = "unreadable" => content[f] = "X2"
    /\ env_steps = 0
    /\ touched = {}
    /\ file_order = FileOrder
    /\ dir_order = DirOrder
    /\ fkind = [f \in Files |-> "regular"]
    /\ bsize \in BlockSizes
    /\ Start

\* lines 19-20: a new digest, the file is opened
Open ==
    /\ pc = "hash"
    /\ Openable(Head(files))
    /\ md5' = md5_new
    /\ handles' = handles \cup {Head(files)}
    /\ stream' = Bytes(content[Head(files)])
    /\ reads' = 0
    /\ pc' = "read"
    /\ UNCHANGED <<todo, files, file_hash, hash_map, total_size,
                   duplicate_size, duplicate_files, gi, stderr, result,
                   stdout, sig, read_len, recorded, rep_size, walked,
                   skipped_dirs, bsize>>
    /\ UNCHANGED <<fsvars, callvars, guivars>>

\* Variant: a new digest is made for every block.
ReadData_NewDigest ==
    /\ pc = "read"
    /\ ReadBlock(stream, bsize) # <<>>
    /\ md5' = md5_update(md5_new, ReadBlock(stream, bsize))
    /\ stream' = RestAfter(stream, bsize)
    /\ reads' = reads + 1
    /\ UNCHANGED <<pc, todo, files, file_hash, hash_map, total_size,
                   duplicate_size, duplicate_files, gi, stderr, result,
                   stdout, sig, read_len, recorded, rep_size, walked,
                   skipped_dirs, handles, bsize>>
    /\ UNCHANGED <<fsvars, callvars, guivars>>

\* lines 22-25: a block is read and folded into the digest
ReadData ==
    /\ pc = "read"
    /\ ReadBlock(stream, bsize) # <<>>
    /\ md5' = md5_update(md5, ReadBlock(stream, bsize))
    /\ stream' = RestAfter(stream, bsize)
    /\ reads' = reads + 1
    /\ UNCHANGED <<pc, todo, files, file_hash, hash_map, total_size,
                   duplicate_size, duplicate_files, gi, stderr, result,
                   stdout, sig, read_len, recorded, rep_size, walked,
                   skipped_dirs, handles, bsize>>
    /\ UNCHANGED <<fsvars, callvars, guivars>>

\* lines 22-24 and 26: the read is empty, the loop ends, the with statement
\* closes the file and the digest is returned
ReadEnd ==
    /\ pc = "read"
    /\ ReadBlock(stream, bsize) = <<>>
    /\ handles' = handles \ {Head(files)}
    /\ file_hash' = md5_hexdigest(md5)
    /\ sig' = [sig EXCEPT ![Head(files)] = file_hash']
    /\ read_len' = [read_len EXCEPT ![Head(files)] =
                        Len(Bytes(content[Head(files)])) - Len(stream)]
    /\ stream' = <<>>
    /\ md5' = None
    /\ pc' = "size"
    /\ UNCHANGED <<todo, files, hash_map, total_size, duplicate_size,
                   duplicate_files, gi, stderr, result, stdout, recorded,
                   rep_size, walked, skipped_dirs, reads, bsize>>
    /\ UNCHANGED <<fsvars, callvars, guivars>>

\* Variant: the file is opened without a with statement and closed after the
\* loop, so an error in a read leaves it open.
ReadRaise_Leaks ==
    /\ pc = "read"
    /\ fstat[Head(files)] = "faulty"
    /\ stream' = <<>>
    /\ md5' = None
    /\ stderr' = Append(stderr, ErrorLine(Head(files)))
    /\ files' = Tail(files)
    /\ pc' = AfterFile
    /\ UNCHANGED <<todo, file_hash, hash_map, total_size, duplicate_size,
                   duplicate_files, gi, result, stdout, sig, read_len,
                   recorded, rep_size, walked, skipped_dirs, handles, reads,
                   bsize>>
    /\ UNCHANGED <<fsvars, callvars, guivars>>

\* line 22 raises: the with statement closes the file, line 45 prints
ReadRaise ==
    /\ pc = "read"
    /\ fstat[Head(files)] = "faulty"
    /\ handles' = handles \ {Head(files)}
    /\ stream' = <<>>
    /\ md5' = None
    /\ stderr' = Append(stderr, ErrorLine(Head(files)))
    /\ files' = Tail(files)
    /\ pc' = AfterFile
    /\ UNCHANGED <<todo, file_hash, hash_map, total_size, duplicate_size,
                   duplicate_files, gi, result, stdout, sig, read_len,
                   recorded, rep_size, walked, skipped_dirs, reads, bsize>>
    /\ UNCHANGED <<fsvars, callvars, guivars>>

\* line 20 raises, line 45 prints
OpenFail ==
    /\ pc = "hash"
    /\ ~Openable(Head(files))
    /\ HashFail

NextBlocks ==
    \/ MainScan
    \/ WalkList
    \/ Open
    \/ OpenFail
    \/ ReadData
    \/ ReadEnd
    \/ ReadRaise
    \/ SizeOk
    \/ WalkDone
    \/ StatsStep
    \/ Return
    \/ ReportNone
    \/ ReportOk

SpecBlocks == InitBlocks /\ [][NextBlocks]_vars

(***************************************************************************)
(* SpecMonitor: system-monitor/system_monitor.py.  The main thread runs    *)
(* toggle_monitoring at every click on the button; each thread it starts   *)
(* runs SystemMonitor.monitor of the SystemMonitor object made with it.    *)
(* The two share the object's attribute running.  No duplicate finder runs *)
(* here.                                                                   *)
(***************************************************************************)

\* Thread.is_alive(): started and not yet returned from monitor.
is_alive(t) == thread_pc[t] \in {"started", "open", "test", "body"}

\* The condition of line 457.
NoneAlive ==
    IF monitoring_thread = None THEN TRUE ELSE ~is_alive(monitoring_thread)

InitMonitor ==
    /\ root_kind = "missing"
    /\ dir_mode = [d \in Dirs |-> "ok"]
    /\ fstat = [f \in Files |-> "gone"]
    /\ content = [f \in Files |-> "none"]
    /\ env_steps = 0
    /\ touched = {}
    /\ file_order = FileOrder
    /\ dir_order = DirOrder
    /\ fkind = [f \in Files |-> "regular"]
    /\ bsize = block_size
    /\ Start

\* toggle_monitoring, first branch: a new SystemMonitor, logging as the
\* check box says, and a new thread running its monitor; start() returns
\* once the thread has been started, and the thread has not run a line of
\* monitor yet.
ClickStart ==
    /\ toggle_pc = "idle"
    /\ clicks < MaxClicks
    /\ NoneAlive
    /\ \E log_var \in BOOLEAN :
        LET t == clicks + 1 IN
        /\ monitor' = t
        /\ running' = [running EXCEPT ![t] = FALSE]
        /\ log_to_file' = [log_to_file EXCEPT ![t] = log_var]
        /\ monitoring_thread' = t
        /\ thread_pc' = [thread_pc EXCEPT ![t] = "started"]
    /\ start_button' = "Stop Monitoring"
    /\ clicks' = clicks + 1
    /\ UNCHANGED <<log_file, toggle_pc, stop_asked>>
    /\ UNCHANGED <<fsvars, progvars>>

\* toggle_monitoring, second branch up to the join: stop_monitoring clears
\* the running flag of the monitor in use.
ClickStop ==
    /\ toggle_pc = "idle"
    /\ clicks < MaxClicks
    /\ ~NoneAlive
    /\ running' = [running EXCEPT ![monitor] = FALSE]
    /\ stop_asked' = stop_asked \cup {monitoring_thread}
    /\ toggle_pc' = "join"
    /\ clicks' = clicks + 1
    /\ UNCHANGED <<monitor, log_to_file, log_file, monitoring_thread,
                   thread_pc, start_button>>
    /\ UNCHANGED <<fsvars, progvars>>

\* join(timeout=1) returns when the thread has ended or when the second is
\* over, whichever comes first; then the button is relabelled.
JoinReturn ==
    /\ toggle_pc = "join"
    /\ toggle_pc' = "idle"
    /\ start_button' = "Start Monitoring"
    /\ UNCHANGED <<monitor, running, log_to_file, log_file,
                   monitoring_thread, thread_pc, clicks, stop_asked>>
    /\ UNCHANGED <<fsvars, progvars>>

\* monitor, its first statement: the thread sets the flag of its own object.
Begin(t) ==
    /\ thread_pc[t] = "started"
    /\ running' = [running EXCEPT ![t] = TRUE]
    /\ thread_pc' = [thread_pc EXCEPT ![t] = "open"]
    /\ UNCHANGED <<monitor, log_to_file, log_file, monitoring_thread,
                   toggle_pc, start_button, clicks, stop_asked>>
    /\ UNCHANGED <<fsvars, progvars>>

\* monitor, before the loop: log.txt is opened when the object logs.
OpenLog(t) ==
    /\ thread_pc[t] = "open"
    /\ log_file' = [log_file EXCEPT ![t] =
                       IF log_to_file[t] THEN "open" ELSE "none"]
    /\ thread_pc' = [thread_pc EXCEPT ![t] = "test"]
    /\ UNCHANGED <<monitor, running, log_to_file, monitoring_thread,
                   toggle_pc, start_button, clicks, stop_asked>>
    /\ UNCHANGED <<fsvars, progvars>>

\* open raises: the handler clears the flag and monitor returns.
OpenLogFail(t) ==
    /\ thread_pc[t] = "open"
    /\ log_to_file[t]
    /\ running' = [running EXCEPT ![t] = FALSE]
    /\ thread_pc' = [thread_pc EXCEPT ![t] = "ended"]
    /\ UNCHANGED <<monitor, log_to_file, log_file, monitoring_thread,
                   toggle_pc, start_button, clicks, stop_asked>>
    /\ UNCHANGED <<fsvars, progvars>>

\* The loop test: into the body, or out of the loop, where the log file is
\* closed and monitor returns.
Test(t) ==
    /\ thread_pc[t] = "test"
    /\ IF running[t]
         THEN /\ thread_pc' = [thread_pc EXCEPT ![t] = "body"]
              /\ log_file' = log_file
         ELSE /\ thread_pc' = [thread_pc EXCEPT ![t] = "ended"]
              /\ log_file' = [log_file EXCEPT ![t] =
                                 IF @ = "open" THEN "closed" ELSE @]
    /\ UNCHANGED <<monitor, running, log_to_file, monitoring_thread,
                   toggle_pc, start_button, clicks, stop_asked>>
    /\ UNCHANGED <<fsvars, progvars>>

\* The loop body: measure, record, call update_callback, sleep.
Body(t) ==
    /\ thread_pc[t] = "body"
    /\ thread_pc' = [thread_pc EXCEPT ![t] = "test"]
    /\ UNCHANGED <<monitor, running, log_to_file, log_file,
                   monitoring_thread, toggle_pc, start_button, clicks,
                   stop_asked>>
    /\ UNCHANGED <<fsvars, progvars>>

\* An exception in the loop body: the handler clears the flag and monitor
\* returns, the log file left as it is.
Raise(t) ==
    /\ thread_pc[t] = "body"
    /\ running' = [running EXCEPT ![t] = FALSE]
    /\ thread_pc' = [thread_pc EXCEPT ![t] = "ended"]
    /\ UNCHANGED <<monitor, log_to_file, log_file, monitoring_thread,
                   toggle_pc, start_button, clicks, stop_asked>>
    /\ UNCHANGED <<fsvars, progvars>>

NextMonitor ==
    \/ ClickStart
    \/ ClickStop
    \/ JoinReturn
    \/ \E t \in Threads : Begin(t)
    \/ \E t \in Threads : OpenLog(t)
    \/ \E t \in Threads : OpenLogFail(t)
    \/ \E t \in Threads : Test(t)
    \/ \E t \in Threads : Body(t)
    \/ \E t \in Threads : Raise(t)

SpecMonitor == InitMonitor /\ [][NextMonitor]_vars

(***************************************************************************)
(* Vocabulary of the properties.                                           *)
(***************************************************************************)

Range(sq) == {sq[i] : i \in 1..Len(sq)}

\* The paths held by a dict.
Members(m) == UNION {Range(m[i].files) : i \in 1..Len(m)}

\* The member sets of a dict's lists.
Groups(m) == {Range(m[i].files) : i \in 1..Len(m)}

RECURSIVE SumOver(_, _)
SumOver(S, g) ==
    IF S = {} THEN 0
    ELSE LET x == CHOOSE y \in S : TRUE
         IN  g[x] + SumOver(S \ {x}, g)

\* Files with an "Error processing" line.
Skipped == {stderr[i].path : i \in {j \in 1..Len(stderr) : stderr[j].msg = "Error processing"}}

\* Files for which calculate_file_hash returned.
Fingerprinted == {f \in Files : sig[f] # None}

\* Files for which the whole try body ran: hash, size, count, append.
Succeeded == {f \in Files : recorded[f] # None}

Returned == result.returned

SameGroup(m, f, g) == \E i \in 1..Len(m) : f \in Range(m[i].files) /\ g \in Range(m[i].files)

(***************************************************************************)
(* C1                                                                      *)
(***************************************************************************)

\* C1, as stated: the total_size returned is the sum of the sizes of exactly
\* the files whose fingerprint was computed.
C1_TotalOverFingerprinted ==
    Returned => result.total_size = SumOver(Fingerprinted, read_len)

\* C1, amended: the total_size returned is the sum of the sizes read for
\* exactly the files whose fingerprint and size lookup both succeeded; a file
\* with an error line contributes nothing, even when its hash was computed.
C1_TotalOverSucceeded ==
    Returned =>
        /\ result.total_size = SumOver(Succeeded, recorded)
        /\ Skipped \cap Succeeded = {}
        /\ Succeeded \subseteq Fingerprinted

\* A run that returned after a file was hashed and then failed its size
\* lookup, with other files counted.
C1_Witness ==
    /\ Returned
    /\ result.total_size > 0
    /\ \E f \in Skipped : f \in Fingerprinted

(***************************************************************************)
(* C2                                                                      *)
(***************************************************************************)

\* C2: every list of the returned dict holds at least two paths.
C2_GroupsHaveTwo ==
    Returned =>
        \A i \in 1..Len(result.duplicate_files) :
            Len(result.duplicate_files[i].files) >= 2

\* A run that returned a group while hash_map also held a single-path list
\* and a file had failed.
C2_Witness ==
    /\ Returned
    /\ result.duplicate_files # <<>>
    /\ \E i \in 1..Len(hash_map) : Len(hash_map[i].files) = 1
    /\ Skipped # {}

(***************************************************************************)
(* C3                                                                      *)
(***************************************************************************)

\* C3, as stated: two files whose fingerprints were computed are in the same
\* returned group exactly when their signatures are equal.
C3_ClassesOverFingerprinted ==
    Returned =>
        \A f, g \in Fingerprinted :
            f # g => (sig[f] = sig[g] <=> SameGroup(result.duplicate_files, f, g))

\* Scenario B: a and b byte-identical of size 100, c distinct of size 50.
ScenarioB ==
    /\ touched = {}
    /\ content = [f \in Files |->
                    CASE f = "root/a" -> "A100"
                      [] f = "root/b" -> "A100"
                      [] f = "root/dA/c" -> "A50"
                      [] OTHER -> "none"]

\* C3, amended: the returned groups are exactly the signature classes of
\* size >= 2 over the files whose fingerprint and size lookup both succeeded;
\* in scenario B that is the single group {a, b}, 100 wasted bytes, 250 scanned.
C3_ClassesOverSucceeded ==
    Returned =>
        /\ Members(result.duplicate_files) \subseteq Succeeded
        /\ \A f, g \in Succeeded :
              f # g => (sig[f] = sig[g] <=> SameGroup(result.duplicate_files, f, g))
        /\ \A i, j \in 1..Len(result.duplicate_files) :
              i # j => result.duplicate_files[i].hash # result.duplicate_files[j].hash
        /\ \A i \in 1..Len(result.duplicate_files) :
              \A f \in Range(result.duplicate_files[i].files) :
                  sig[f] = result.duplicate_files[i].hash
        /\ ScenarioB =>
              /\ Groups(result.duplicate_files) = {{"root/a", "root/b"}}
              /\ result.duplicate_size = 100
              /\ result.total_size = 250

\* A run that returned a group, left a succeeded file with a signature of its
\* own out of every group, and skipped a hashed file whose signature is the
\* group's.
C3_Witness ==
    /\ Returned
    /\ \E f \in Succeeded : f \notin Members(result.duplicate_files)
    /\ \E g \in Skipped : \E i \in 1..Len(result.duplicate_files) :
          sig[g] = result.duplicate_files[i].hash

\* Scenario B has been scanned to the end.
C3_WitnessScenarioB == Returned /\ ScenarioB /\ pc = "done"

(***************************************************************************)
(* C4                                                                      *)
(***************************************************************************)

RECURSIVE SumWasted(_, _)
SumWasted(m, sizes) ==
    IF m = <<>> THEN 0
    ELSE Head(sizes) * (Len(Head(m).files) - 1) + SumWasted(Tail(m), Tail(sizes))

\* The files of every list hold the same bytes, and nothing changed the tree.
IdenticalGroups(m) ==
    /\ touched = {}
    /\ \A i \in 1..Len(m) : \A f, g \in Range(m[i].files) : content[f] = content[g]

FirstSizes(m) == [i \in 1..Len(m) |-> Len(Bytes(content[m[i].files[1]]))]

\* C4: the duplicate_size returned is the sum over the returned groups of
\* the size read for the group's first path times (len - 1); when each group
\* is n identical files of size s in an unchanged tree, that is s * (n - 1).
C4_WastedIsSum ==
    Returned =>
        /\ Len(rep_size) = Len(result.duplicate_files)
        /\ result.duplicate_size = SumWasted(result.duplicate_files, rep_size)
        /\ IdenticalGroups(result.duplicate_files) =>
              result.duplicate_size =
                  SumWasted(result.duplicate_files, FirstSizes(result.duplicate_files))

\* Two groups were returned, or one of three identical files.
C4_Witness ==
    /\ Returned
    /\ IdenticalGroups(result.duplicate_files)
    /\ \/ Len(result.duplicate_files) = 2
       \/ \E i \in 1..Len(result.duplicate_files) :
             Len(result.duplicate_files[i].files) = 3

(***************************************************************************)
(* C5                                                                      *)
(***************************************************************************)

\* What a scan of the files S of the present tree computes, from the
\* definitions of the statistics rather than from the steps of the program.
HashOf(f) == calculate_file_hash(Bytes(content[f]), block_size)

SizeOf(f) == Len(Bytes(content[f]))

Pos(f) == CHOOSE i \in 1..Len(FileOrder) : FileOrder[i] = f

FirstOf(c) == CHOOSE f \in c : \A g \in c : Pos(f) <= Pos(g)

Classes(S) ==
    {c \in {{f \in S : HashOf(f) = HashOf(x)} : x \in S} : Cardinality(c) >= 2}

ExpectedTotal(S) == SumOver(S, [f \in S |-> SizeOf(f)])

ExpectedWasted(S) ==
    SumOver(Classes(S),
            [c \in Classes(S) |-> SizeOf(FirstOf(c)) * (Cardinality(c) - 1)])

\* The files of the tree other than those of G.
Others(G) == {f \in Files \ G : fstat[f] # "gone"}

Finished == pc \in {"done", "exit1", "crashed"}

\* C5: when files fail during the walk and nothing else changes, the failed
\* files are not indexed, the scan goes on and is not aborted, and what is
\* returned is what a scan of the tree without those files computes.
C5_FailureIsolated ==
    (touched # {} /\ touched \subseteq Files /\ touched \subseteq Skipped) =>
        /\ touched \cap Members(hash_map) = {}
        /\ pc \notin {"crashed", "exit1"}
        /\ ~Finished => ENABLED ProgNext
        /\ Returned =>
              /\ Groups(result.duplicate_files) = Classes(Others(touched))
              /\ result.total_size = ExpectedTotal(Others(touched))
              /\ result.duplicate_size = ExpectedWasted(Others(touched))

\* The first file of the root directory failed, the scan went on to return a
\* group of other files, and the failed file holds the bytes of that group.
C5_Witness ==
    /\ touched = {"root/a"}
    /\ "root/a" \in Skipped
    /\ pc = "done"
    /\ result.duplicate_files # <<>>
    /\ fstat["root/a"] = "unreadable"
    /\ \E f \in Members(result.duplicate_files) : content[f] = content["root/a"]

(***************************************************************************)
(* C6                                                                      *)
(***************************************************************************)

\* The paths of the error list handed back with a result, if it has one.
ReturnedErrors(r) ==
    IF "errors" \in DOMAIN r THEN {r.errors[i].path : i \in 1..Len(r.errors)} ELSE {}

ErrorLines(f) == Cardinality({i \in 1..Len(stderr) : stderr[i] = ErrorLine(f)})

WalkOver == pc \in {"stats", "return", "report", "done", "crashed"}

C7_SubdirErrorReported ==
    \A d \in skipped_dirs \ {Root} :
        /\ \E i \in 1..Len(stderr) : stderr[i].path = d
        /\ (WalkOver /\ touched = {d}) =>
              walked = {f \in Files : fstat[f] # "gone" /\ DirOf(f) # d}

(***************************************************************************)
(* C8                                                                      *)
(***************************************************************************)

\* C8, as stated: with an invalid root the program fails before anything is
\* walked, hashed or returned, and it fails in no other case.
C8_FailsOnlyOnInvalidRoot ==
    /\ (root_kind # "dir" /\ pc # "main") =>
          pc = "exit1" /\ walked = {} /\ Fingerprinted = {} /\ ~Returned
    /\ pc \in {"exit1", "crashed"} => root_kind # "dir"

(***************************************************************************)
(* C9                                                                      *)
(***************************************************************************)

\* C9, as stated: the statistics pass over the filtered dict cannot raise.
C9_StatisticsCannotRaise == ~(pc = "crashed" /\ ~Returned)

(***************************************************************************)
(* C10                                                                     *)
(***************************************************************************)

\* The root is a directory and the tree never held a regular file.
EmptyTree ==
    /\ root_kind = "dir"
    /\ \A f \in Files : fstat[f] = "gone"
    /\ touched \cap Files = {}

\* C10: a scan of a tree without regular files never fails, keeps going
\* until it is done, and returns an empty dict, total_size 0 and
\* duplicate_size 0; main then prints that no duplicates were found.
C10_EmptyTreeScan ==
    EmptyTree =>
        /\ pc \notin {"crashed", "exit1"}
        /\ ~Finished => ENABLED ProgNext
        /\ Returned =>
              /\ result.duplicate_files = <<>>
              /\ result.total_size = 0
              /\ result.duplicate_size = 0
        /\ pc = "done" => stdout[Len(stdout)] = "No duplicate files found."

\* The scan of an empty tree is done.
C10_Witness == EmptyTree /\ pc = "done" /\ Returned

(***************************************************************************)
(* C11                                                                     *)
(***************************************************************************)

\* The files a scan of the present tree can read.
ReadableNow == {f \in Files : fstat[f] = "ok"}

\* The result in hand is of the tree as it is now.
ResultOfThisTree == Returned /\ renamed = <<>>

\* The listing differs from the reference order FileOrder, DirOrder.
OtherOrder == file_order # FileOrder \/ dir_order # DirOrder

\* C11, as stated: whatever the order in which the files are fingerprinted
\* and inserted, the groups, the group count, total_size and duplicate_size
\* are those of the scan in the reference order.
C11_OrderInvariant ==
    ResultOfThisTree =>
        /\ Groups(result.duplicate_files) = Classes(ReadableNow)
        /\ Len(result.duplicate_files) = Cardinality(Classes(ReadableNow))
        /\ result.total_size = ExpectedTotal(ReadableNow)
        /\ result.duplicate_size = ExpectedWasted(ReadableNow)

\* Files with equal signatures have equal sizes.
EqualSigEqualSize ==
    \A f, g \in ReadableNow : HashOf(f) = HashOf(g) => SizeOf(f) = SizeOf(g)

\* C11, amended: whatever the order, the groups, the group count and
\* total_size are those of the scan in the reference order; duplicate_size
\* is the sum over the groups of the size of the member inserted first
\* times (len - 1), which is the reference value when files with equal
\* signatures have equal sizes.
C11_OrderInvariantButWasted ==
    ResultOfThisTree =>
        /\ Groups(result.duplicate_files) = Classes(ReadableNow)
        /\ Len(result.duplicate_files) = Cardinality(Classes(ReadableNow))
        /\ result.total_size = ExpectedTotal(ReadableNow)
        /\ result.duplicate_size =
              SumWasted(result.duplicate_files, FirstSizes(result.duplicate_files))
        /\ EqualSigEqualSize => result.duplicate_size = ExpectedWasted(ReadableNow)

\* A scan in another order returned two groups, one of them with another
\* first member than in the reference order, and files with equal
\* signatures have equal sizes.
C11_Witness ==
    /\ ResultOfThisTree
    /\ OtherOrder
    /\ EqualSigEqualSize
    /\ Len(result.duplicate_files) = 2
    /\ \E i \in 1..Len(result.duplicate_files) :
          result.duplicate_files[i].files[1] #
              FirstOf(Range(result.duplicate_files[i].files))

(***************************************************************************)
(* C12                                                                     *)
(***************************************************************************)

\* The signature keys of a dict, each with the set of its members.
KeyedGroups(m) == {<<m[i].hash, Range(m[i].files)>> : i \in 1..Len(m)}

\* A later run on the tree of the first run has returned.
SecondResult == runs >= 2 /\ Returned /\ renamed = <<>>

\* C12: a second run over the unmodified tree returns the same signature
\* keys with the same member sets, and the same total_size and
\* duplicate_size, as the first run.
C12_Idempotent ==
    SecondResult =>
        /\ KeyedGroups(result.duplicate_files) = KeyedGroups(first.result.duplicate_files)
        /\ Len(result.duplicate_files) = Len(first.result.duplicate_files)
        /\ result.total_size = first.result.total_size
        /\ result.duplicate_size = first.result.duplicate_size

\* The second run returned a group, having also met a file with a signature
\* of its own and a file it could not read.
C12_Witness ==
    /\ SecondResult
    /\ result.duplicate_files # <<>>
    /\ \E i \in 1..Len(hash_map) : Len(hash_map[i].files) = 1
    /\ Skipped # {}

(***************************************************************************)
(* C13                                                                     *)
(***************************************************************************)

\* The other members of the list that holds x; none when no list holds it.
GroupMates(m, x) ==
    UNION {Range(m[i].files) \ {x} : i \in {j \in 1..Len(m) : x \in Range(m[j].files)}}

\* A run after the renaming of a file that the first run fingerprinted.
RenamedResult ==
    /\ renamed # <<>>
    /\ runs > renamed[3]
    /\ Returned
    /\ first.sig[renamed[1]] # None

\* C13: a run over the tree in which one file was renamed, its content
\* unchanged, gives the file under its new name the signature it had under
\* its old name in the first run, and puts it in a group with the same other
\* members.
C13_RenameKeepsSignature ==
    RenamedResult =>
        /\ sig[renamed[2]] = first.sig[renamed[1]]
        /\ GroupMates(result.duplicate_files, renamed[2]) =
              GroupMates(first.result.duplicate_files, renamed[1])
        /\ renamed[1] \notin Members(result.duplicate_files)

\* A member of a group was moved to another directory, which changes its
\* place in the walk, and the next run returned.
C13_Witness ==
    /\ RenamedResult
    /\ DirOf(renamed[1]) # DirOf(renamed[2])
    /\ GroupMates(result.duplicate_files, renamed[2]) # {}

(***************************************************************************)
(* C14                                                                     *)
(***************************************************************************)

Regular == {f \in Files : fkind[f] = "regular" /\ fstat[f] # "gone"}

\* C14, as stated: a symbolic link is never yielded by the walk, never
\* fingerprinted, never counted in total_size and never in a group.
C14_OnlyRegularFiles ==
    Returned =>
        /\ walked \subseteq Regular
        /\ Fingerprinted \subseteq Regular
        /\ Members(hash_map) \subseteq Regular
        /\ Members(result.duplicate_files) \subseteq Regular
        /\ result.total_size = SumOver(Succeeded \cap Regular, recorded)

(***************************************************************************)
(* C15                                                                     *)
(***************************************************************************)

\* The summary main printed.
Summary == stdout[Len(stdout)]

Reported == pc = "done" /\ result.duplicate_files # <<>>

\* C15, as stated: the number of groups reported is the number of returned
\* groups, and the number of duplicate files reported is the sum of
\* len(members) over the returned groups.
C15_CountsAllMembers ==
    Reported =>
        /\ Summary.sets = Len(result.duplicate_files)
        /\ Summary.found = SumLen(result.duplicate_files)

\* C15, amended: one "Duplicate set" block is printed per returned group,
\* and the number of duplicate files reported is the number of members
\* beyond one per group: the paths in the groups less the number of groups.
C15_CountsCopies ==
    Reported =>
        /\ Summary.sets = Cardinality(Groups(result.duplicate_files))
        /\ Summary.found = Cardinality(Members(result.duplicate_files))
                              - Cardinality(Groups(result.duplicate_files))

\* main reported two groups, or a group of three files.
C15_Witness ==
    /\ Reported
    /\ \/ Len(result.duplicate_files) = 2
       \/ \E i \in 1..Len(result.duplicate_files) :
             Len(result.duplicate_files[i].files) = 3

(***************************************************************************)
(* C16                                                                     *)
(***************************************************************************)

Whole(f) == Bytes(content[f])

\* The digest of a byte string folded in one piece.
DigestOf(bytes) == md5_hexdigest(md5_update(md5_new, bytes))

\* C16: while calculate_file_hash reads, the reads so far have each taken
\* the next block_size bytes, or what was left, the digest is that of the
\* bytes read so far, the number of reads is bounded by the length of the
\* file, and a next step of the loop is possible; the signature returned is
\* the digest of the whole content, whatever the block size, and the same as
\* with the default block size.
C16_BlocksFoldToDigest ==
    /\ pc = "read" =>
          LET all == Whole(Head(files))
              done == Len(all) - Len(stream)
          IN  /\ stream = SubSeq(all, done + 1, Len(all))
              /\ done = Min(reads * bsize, Len(all))
              /\ reads > 0 => (reads - 1) * bsize < Len(all)
              /\ md5 = md5_update(md5_new, SubSeq(all, 1, done))
              /\ ENABLED (ReadData \/ ReadEnd)
    /\ \A f \in Fingerprinted :
          /\ sig[f] = DigestOf(Whole(f))
          /\ sig[f] = calculate_file_hash(Whole(f), block_size)
          /\ read_len[f] = Len(Whole(f))

\* A scan with block size 2 returned after it fingerprinted a file of 5
\* bytes, whose third block is short, and a file of 2 bytes, whose only
\* block is full.
C16_Witness ==
    /\ Returned
    /\ bsize = 2
    /\ \E f, g \in Fingerprinted : content[f] = "P5" /\ content[g] = "X2"

(***************************************************************************)
(* C17                                                                     *)
(***************************************************************************)

\* C17: at most one file is open at any point of the scan, and only while
\* calculate_file_hash reads it; none is open after a call has ended, with a
\* signature or with an error, nor once find_duplicates has returned.
C17_HandleReleased ==
    /\ Cardinality(handles) <= 1
    /\ pc = "read" => handles = {Head(files)}
    /\ pc # "read" => handles = {}
    /\ Returned => handles = {}

\* find_duplicates returned after a read of an open file raised and another
\* file was fingerprinted.
C17_Witness ==
    /\ Returned
    /\ \E f \in Skipped : fstat[f] = "faulty"
    /\ Fingerprinted # {}

(***************************************************************************)
(* C18                                                                     *)
(***************************************************************************)

\* C18, as stated: the size taken for a group is the size recorded for its
\* first member during the walk, and the statistics pass depends on nothing
\* but the dict, so that it can always take its step.
C18_SizeCarriedFromWalk ==
    /\ \A i \in 1..Len(rep_size) :
          rep_size[i] = recorded[duplicate_files[i].files[1]]
    /\ pc = "stats" => ENABLED StatsStep
    /\ Returned =>
          result.duplicate_size =
              SumWasted(result.duplicate_files,
                        [i \in 1..Len(result.duplicate_files) |->
                            recorded[result.duplicate_files[i].files[1]]])

(***************************************************************************)
(* C19                                                                     *)
(***************************************************************************)

Scanning == pc \in {"walk", "hash", "size", "stats", "return"}

\* C19, as stated: once main has found the root to be a directory, the scan
\* is either still going and able to take its next step, whatever has failed
\* so far, or it has returned a result that counts the files it processed.
C19_ScanCompletes ==
    (root_kind = "dir" /\ pc # "main") =>
        /\ Returned \/ (Scanning /\ ENABLED ProgNext)
        /\ Returned => result.total_size = SumOver(Succeeded, recorded)

(***************************************************************************)
(* C20                                                                     *)
(***************************************************************************)

\* C20: in every state, total_size is the sum of the sizes line 41 read for
\* the paths now in hash_map, the paths in hash_map are those whose size was
\* counted, and a file that was hashed and then failed its size lookup is
\* neither in hash_map nor counted.
C20_TotalMatchesIndex ==
    /\ total_size = SumOver(Members(hash_map), recorded)
    /\ Members(hash_map) = Succeeded
    /\ \A f \in Fingerprinted \cap Skipped :
          f \notin Members(hash_map) /\ recorded[f] = None

\* The walk is under way: a file was hashed and failed its size lookup, and
\* hash_map holds two lists of one path each.
C20_Witness ==
    /\ pc \in {"hash", "size"}
    /\ Fingerprinted \cap Skipped # {}
    /\ Len(hash_map) = 2
    /\ \A i \in 1..Len(hash_map) : Len(hash_map[i].files) = 1

(***************************************************************************)
(* C21                                                                     *)
(***************************************************************************)

NoRepeat(sq) == \A i, j \in 1..Len(sq) : i # j => sq[i] # sq[j]

\* No path is twice in a list of the dict, and none is in two lists.
PathsOnce(m) ==
    /\ \A i \in 1..Len(m) : NoRepeat(m[i].files)
    /\ \A i, j \in 1..Len(m) :
          i # j => Range(m[i].files) \cap Range(m[j].files) = {}

\* C21: in every state of the walk and in what is returned, every path is
\* at most once in the dict: not twice in a list, not in two lists.
C21_PathsOnce ==
    /\ PathsOnce(hash_map)
    /\ PathsOnce(duplicate_files)
    /\ Returned => PathsOnce(result.duplicate_files)

\* A second run is in its walk, with a list of two paths and a list of one
\* path in hash_map.
C21_Witness ==
    /\ runs = 2
    /\ pc = "hash"
    /\ \E i, j \in 1..Len(hash_map) :
          Len(hash_map[i].files) = 2 /\ Len(hash_map[j].files) = 1

(***************************************************************************)
(* C22                                                                     *)
(***************************************************************************)

\* A returned group whose files hold bytes.
NonEmptyGroup ==
    \E i \in 1..Len(result.duplicate_files) :
        \E f \in Range(result.duplicate_files[i].files) : SizeOf(f) > 0

\* C22: for a tree that does not change and in which files with equal
\* signatures have equal sizes, the duplicate_size returned is at most the
\* total_size returned, and smaller when a group of non-empty files exists.
C22_WastedWithinTotal ==
    (ResultOfThisTree /\ EqualSigEqualSize) =>
        /\ result.duplicate_size <= result.total_size
        /\ NonEmptyGroup => result.duplicate_size < result.total_size

\* The scan returned a group of empty files and a group of non-empty files,
\* and nothing else was counted.
C22_Witness ==
    /\ ResultOfThisTree
    /\ EqualSigEqualSize
    /\ NonEmptyGroup
    /\ Len(result.duplicate_files) = 2
    /\ \E i \in 1..Len(result.duplicate_files) :
          \A f \in Range(result.duplicate_files[i].files) : SizeOf(f) = 0

\* The threads that are alive.
AliveThreads == {t \in Threads : is_alive(t)}

\* C23, first part (holds): at most one monitoring thread is alive at any
\* time, and it is the one the application holds.
C23_OneThreadAlive ==
    /\ Cardinality(AliveThreads) <= 1
    /\ AliveThreads \subseteq {monitoring_thread}

\* C23: at most one monitoring thread is alive at any time, and a thread a
\* click has called stop_monitoring for while it was alive finds its running
\* flag cleared at its next loop test, so that it leaves the loop there.
C23_ClickStopsThread ==
    /\ C23_OneThreadAlive
    /\ \A t \in stop_asked : thread_pc[t] = "test" => ~running[t]

\* C23: a click has started a thread and a second click has called
\* stop_monitoring while the thread was alive.
C23_Witness ==
    \E t \in stop_asked : thread_pc[t] = "test"

====
